---- MODULE Spec2Model ----
(***************************************************************************)
(* Model of the concurrent port scanner (05-port-scanner/solution/main.go, *)
(* kept as src/unnamed/part_000): the port-specification parser, main's    *)
(* validation sequence, Scan, resolveTarget, the worker pool of scanPorts  *)
(* the classification done by scanPort and the banner read of grabBanner.  *)
(*                                                                         *)
(* Strings that the code parses are sequences of one-character strings, so *)
(* that Split, TrimSpace and Atoi are computed the way the code computes   *)
(* them.                                                                   *)
(***************************************************************************)
EXTENDS Integers, Sequences, FiniteSets, TLC

VARIABLES
    pc,          \* position of main: see the actions below
    tokens,      \* the comma-separated tokens the -p flag was built from
    portSpec,    \* *ports: the -p flag, a sequence of characters
    target,      \* *target: "" | "ip" | "host"
    Concurrency, \* ps.Concurrency (the -c flag)
    responder,   \* the network the scan meets: what a connect to a port of
                 \* each class answers
    Ports,       \* ps.Ports (portList of main)
    parseErr,    \* the error parsePorts returned, "" when none
    parseDetail, \* what the error cites after its colon
    ipAddr,      \* result of resolveTarget, "" before
    scanErr,     \* the error Scan returned, "" when none
    jobs,        \* the jobs channel: buffered ports not yet received
    jobsClosed,  \* close(jobs) has run
    sent,        \* number of ports the job sender has sent
    results,     \* the results channel: buffered outcomes not yet received
    resultsClosed, \* close(results) has run
    wg,          \* the WaitGroup counter
    worker,      \* per worker: [pc, port]
    scanResults, \* the collector's slice, then the return value of scanPorts
    arrival,     \* the outcomes in the order the collector received them
                 \* (history)
    summary,     \* the ScanSummary Scan returned
    sockets,     \* number of connections opened and not yet closed (history)
    lookups,     \* number of net.LookupIP calls made (history)
    dialed,      \* sequence of ports DialContext was called for (history)
    \* the file watcher
    Command,      \* config.Command, "" when none is configured
    currentState, \* w.currentState: the tracked files as of the last scan
    newState,     \* checkForChanges: the scan it is comparing
    pending,      \* checkForChanges: the events still to handle and append
    events,       \* w.events
    stopChan,     \* "open" or "closed"
    polls,        \* number of polls started (history)
    printed,      \* the total main has read from w.events, -1 before
    wpc,          \* where the goroutine running Start is
    mpc           \* where the watcher's main is

vars == <<pc, tokens, portSpec, target, Concurrency, responder,
          Ports, parseErr, parseDetail, ipAddr, scanErr, jobs, jobsClosed, sent, results,
          resultsClosed, wg, worker, scanResults, arrival, summary, sockets,
          lookups, dialed,
          Command, currentState, newState, pending, events, stopChan, polls,
          printed, wpc, mpc>>

watchVars == <<Command, currentState, newState, pending, events, stopChan, polls,
               printed, wpc, mpc>>

----
(* Bounds of the model *)

MaxTokens == 2
MaxPermLen == 3
MaxSpan == 2
MaxConcurrency == 2
NumClasses == 2

----
(* Program constants *)

MinPort == 1
MaxPort == 65535
ReadBuffer == 1024
BannerLimit == 100

----
(* String helpers: strings.Contains, strings.Split, strings.TrimSpace,     *)
(* strconv.Atoi on sequences of characters                                 *)

Digits == <<"0", "1", "2", "3", "4", "5", "6", "7", "8", "9">>

IsDigit(c) == \E i \in 1..10 : Digits[i] = c

DigitVal(c) == (CHOOSE i \in 1..10 : Digits[i] = c) - 1

Contains(s, c) == \E i \in 1..Len(s) : s[i] = c

RECURSIVE Split(_, _)
Split(s, sep) ==
    IF ~Contains(s, sep) THEN <<s>>
    ELSE LET i == CHOOSE k \in 1..Len(s) :
                      s[k] = sep /\ \A j \in 1..(k - 1) : s[j] # sep
         IN  <<SubSeq(s, 1, i - 1)>> \o Split(SubSeq(s, i + 1, Len(s)), sep)

IsSpace(c) == c \in {" ", "\t", "\n", "\r"}

RECURSIVE TrimSpace(_)
TrimSpace(s) ==
    IF s = <<>> THEN s
    ELSE IF IsSpace(Head(s)) THEN TrimSpace(Tail(s))
    ELSE IF IsSpace(s[Len(s)]) THEN TrimSpace(SubSeq(s, 1, Len(s) - 1))
    ELSE s

\* strings.ReplaceAll of one character by a string
RECURSIVE ReplaceAll(_, _, _)
ReplaceAll(s, old, new) ==
    IF s = <<>> THEN <<>>
    ELSE (IF Head(s) = old THEN new ELSE <<Head(s)>>) \o ReplaceAll(Tail(s), old, new)

RECURSIVE DecVal(_)
DecVal(s) ==
    IF s = <<>> THEN 0 ELSE 10 * DecVal(SubSeq(s, 1, Len(s) - 1)) + DigitVal(s[Len(s)])

\* strconv.Atoi: an optional sign, then one or more decimal digits
Atoi(s) ==
    LET signed == s # <<>> /\ Head(s) \in {"+", "-"}
        body   == IF signed THEN Tail(s) ELSE s
    IN  IF body = <<>> \/ \E i \in 1..Len(body) : ~IsDigit(body[i])
        THEN [ok |-> FALSE, val |-> 0]
        ELSE [ok |-> TRUE,
              val |-> IF signed /\ Head(s) = "-" THEN 0 - DecVal(body) ELSE DecVal(body)]

\* the decimal digits of a natural number
RECURSIVE Digs(_)
Digs(n) == IF n < 10 THEN <<Digits[n + 1]>> ELSE Digs(n \div 10) \o <<Digits[(n % 10) + 1]>>

\* the %d verb of fmt: the number in decimal, a minus sign before a
\* negative one
Itoa(n) == IF n < 0 THEN <<"-">> \o Digs(0 - n) ELSE Digs(n)

RECURSIVE Join(_, _)
Join(ts, sep) ==
    IF ts = <<>> THEN <<>>
    ELSE IF Len(ts) = 1 THEN ts[1]
    ELSE ts[1] \o <<sep>> \o Join(Tail(ts), sep)

----
(* parsePorts and its helpers *)

Common == <<"c", "o", "m", "m", "o", "n">>

getCommonPorts ==
    <<21, 22, 23, 25, 53, 80, 110, 143, 443, 993, 995,
      135, 139, 445, 993, 995, 1723, 3306, 3389, 5432, 5900,
      8080, 8443, 9200, 27017>>

SeqToSet(s) == {s[i] : i \in 1..Len(s)}

RECURSIVE SortSet(_)
SortSet(S) ==
    IF S = {} THEN <<>>
    ELSE LET m == CHOOSE x \in S : \A y \in S : x <= y
         IN  <<m>> \o SortSet(S \ {m})

uniqueSortedPorts(ports) == SortSet(SeqToSet(ports))

\* mutant: the upper limit of a single port is not checked
PortOKNoUpper(port) == ~(port < MinPort)

PortOK(port) == ~(port < MinPort \/ port > MaxPort)

RECURSIVE Range(_, _)
Range(start, end) == IF start > end THEN <<>> ELSE <<start>> \o Range(start + 1, end)

\* mutant: a range of one port is rejected
RangeOKStrict(start, end) == ~(start < MinPort \/ end > MaxPort \/ start >= end)

RangeOK(start, end) == ~(start < MinPort \/ end > MaxPort \/ start > end)

ParseFailed(err, detail) == [err |-> err, ports |-> <<>>, detail |-> detail]

\* one iteration of the loop over parts: the ports the part appends, or the
\* error the function returns with and the text the error cites
parsePart(raw) ==
    LET part == TrimSpace(raw) IN
    IF Contains(part, "-") THEN
        LET rangeParts == Split(part, "-") IN
        IF Len(rangeParts) # 2 THEN ParseFailed("invalid port range", part)
        ELSE LET start == Atoi(rangeParts[1])
                 end   == Atoi(rangeParts[2])
             IN  IF ~start.ok THEN ParseFailed("invalid start port", rangeParts[1])
                 ELSE IF ~end.ok THEN ParseFailed("invalid end port", rangeParts[2])
                 ELSE IF ~RangeOK(start.val, end.val)
                      THEN ParseFailed("invalid port range",
                                       Itoa(start.val) \o <<"-">> \o Itoa(end.val))
                 ELSE [err |-> "", ports |-> Range(start.val, end.val), detail |-> <<>>]
    ELSE
        LET port == Atoi(part) IN
        IF ~port.ok THEN ParseFailed("invalid port", part)
        ELSE IF ~PortOK(port.val) THEN ParseFailed("port out of range", Itoa(port.val))
        ELSE [err |-> "", ports |-> <<port.val>>, detail |-> <<>>]

RECURSIVE parseParts(_, _)
parseParts(parts, ports) ==
    IF parts = <<>> THEN [err |-> "", ports |-> ports, detail |-> <<>>]
    ELSE LET r == parsePart(Head(parts))
         IN  IF r.err # "" THEN r
             ELSE parseParts(Tail(parts), ports \o r.ports)

parsePorts(spec) ==
    IF spec = Common THEN [err |-> "", ports |-> getCommonPorts, detail |-> <<>>]
    ELSE LET r == parseParts(Split(spec, ","), <<>>)
         IN  IF r.err # "" THEN r
             ELSE [err |-> "", ports |-> uniqueSortedPorts(r.ports), detail |-> <<>>]

----
(* The network and scanPort's classification *)

ConnectOutcomes == {"connected", "timeout", "refused", "unreachable", "plain"}

\* the error DialContext returns for an outcome: whether it implements
\* net.Error, what Timeout() answers, and the segments of Error()
DialErr(outcome) ==
    CASE outcome = "timeout" ->
           [isNetError |-> TRUE, timeout |-> TRUE,
            text |-> <<"dial tcp", "i/o timeout">>]
      [] outcome = "refused" ->
           [isNetError |-> TRUE, timeout |-> FALSE,
            text |-> <<"dial tcp", "connect", "connection refused">>]
      [] outcome = "unreachable" ->
           [isNetError |-> TRUE, timeout |-> FALSE,
            text |-> <<"dial tcp", "connect", "network is unreachable">>]
      [] outcome = "plain" ->
           [isNetError |-> FALSE, timeout |-> FALSE,
            text |-> <<"operation was canceled">>]
      [] OTHER -> [isNetError |-> FALSE, timeout |-> FALSE, text |-> <<>>]

ServicePorts == {21, 22, 23, 25, 53, 80, 110, 143, 443, 993, 995,
                 3306, 3389, 5432, 5900, 8080, 8443}

\* mutant: a port that is not in the table has no service name
getServiceNameNoDefault(port) == IF port = 80 THEN "http" ELSE ""

getServiceName(port) ==
    CASE port = 21 -> "ftp"      [] port = 22 -> "ssh"
      [] port = 23 -> "telnet"   [] port = 25 -> "smtp"
      [] port = 53 -> "dns"      [] port = 80 -> "http"
      [] port = 110 -> "pop3"    [] port = 143 -> "imap"
      [] port = 443 -> "https"   [] port = 993 -> "imaps"
      [] port = 995 -> "pop3s"   [] port = 3306 -> "mysql"
      [] port = 3389 -> "rdp"    [] port = 5432 -> "postgresql"
      [] port = 5900 -> "vnc"    [] port = 8080 -> "http-alt"
      [] port = 8443 -> "https-alt"
      [] OTHER -> "unknown"

\* mutant: every net.Error that is not a timeout is taken for a refusal
ClassifyErrNoTextCheck(err) ==
    IF err.isNetError THEN
        IF err.timeout THEN "filtered" ELSE "closed"
    ELSE "filtered"

\* the if/else chain of scanPort over a non-nil err
ClassifyErr(err) ==
    IF err.isNetError THEN
        IF err.timeout THEN "filtered"
        ELSE IF Contains(err.text, "connection refused") THEN "closed"
        ELSE "filtered"
    ELSE "filtered"

\* mutant: the case for the HTTP ports is missing
ProbeNoHTTP(port) ==
    CASE port = 21 -> "HELP\r\n"
      [] port = 25 -> "EHLO test\r\n"
      [] port = 110 -> "USER test\r\n"
      [] port = 143 -> "A001 CAPABILITY\r\n"
      [] OTHER -> ""

\* the greeting grabBanner writes before its read, "" where it writes none
Probe(port) ==
    CASE port = 21 -> "HELP\r\n"
      [] port = 25 -> "EHLO test\r\n"
      [] port \in {80, 8080} -> "GET / HTTP/1.0\r\nHost: test\r\n\r\n"
      [] port = 110 -> "USER test\r\n"
      [] port = 143 -> "A001 CAPABILITY\r\n"
      [] OTHER -> ""

\* what conn.Read can return within the read deadline: an error (the peer
\* closed or reset the connection), the expiry of the deadline, or bytes
BannerBytes == <<"O", "K", "\r", "\n", "h", "i", "\r", "\n">>

BannerReads ==
    { [err |-> "EOF", data |-> <<>>],
      [err |-> "i/o timeout", data |-> <<>>],
      [err |-> "", data |-> BannerBytes] }

NoRead == [err |-> "not connected", data |-> <<>>]

\* banner[:100] + "..." when the banner is longer than BannerLimit bytes
Truncate(banner) ==
    IF Len(banner) > BannerLimit
    THEN SubSeq(banner, 1, BannerLimit) \o <<".", ".", ".">>
    ELSE banner

\* buffer[:n]: a read fills at most ReadBuffer bytes
FirstBytes(data) ==
    SubSeq(data, 1, IF Len(data) > ReadBuffer THEN ReadBuffer ELSE Len(data))

\* grabBanner from the read on: "" on a read error, else the bytes read,
\* trimmed, then with CR made visible, then LF, then cut to BannerLimit
grabBanner(port, read) ==
    IF read.err # "" THEN <<>>
    ELSE CHOOSE banner \in
           { Truncate(noLF) :
               noLF \in { ReplaceAll(noCR, "\n", <<"\\", "n">>) :
                 noCR \in { ReplaceAll(trimmed, "\r", <<"\\", "r">>) :
                   trimmed \in { TrimSpace(FirstBytes(read.data)) } } } } : TRUE

\* mutant: a port whose banner read failed is reported as filtered
scanPortDowngrading(port, outcome, read) ==
    IF outcome # "connected"
    THEN [Port |-> port, Status |-> ClassifyErr(DialErr(outcome)),
          Service |-> "", Banner |-> <<>>, Error |-> DialErr(outcome).text]
    ELSE IF read.err # ""
    THEN [Port |-> port, Status |-> "filtered",
          Service |-> getServiceName(port), Banner |-> <<>>, Error |-> <<read.err>>]
    ELSE [Port |-> port, Status |-> "open",
          Service |-> getServiceName(port), Banner |-> grabBanner(port, read),
          Error |-> <<>>]

\* mutant: the banner step also runs when the connect failed
scanPortBannerAlways(port, outcome, read) ==
    IF outcome # "connected"
    THEN [Port |-> port, Status |-> ClassifyErr(DialErr(outcome)),
          Service |-> "", Banner |-> <<"?">>, Error |-> DialErr(outcome).text]
    ELSE [Port |-> port, Status |-> "open",
          Service |-> getServiceName(port), Banner |-> grabBanner(port, read),
          Error |-> <<>>]

\* the result scanPort returns for what DialContext and, on an open port,
\* conn.Read answered
scanPort(port, outcome, read) ==
    IF outcome # "connected"
    THEN [Port |-> port, Status |-> ClassifyErr(DialErr(outcome)),
          Service |-> "", Banner |-> <<>>, Error |-> DialErr(outcome).text]
    ELSE [Port |-> port, Status |-> "open",
          Service |-> getServiceName(port), Banner |-> grabBanner(port, read),
          Error |-> <<>>]

\* the class of a port: the network answers all ports of a class alike
Class(port) == port % NumClasses

\* what the network answers to a connect to the port
Answer(port) == responder[Class(port)].connect

\* what a read on the connection to the port returns
Read(port) == responder[Class(port)].read

\* what a class of ports can answer: a failed connect, or a connect and a read
ClassAnswers ==
    {[connect |-> o, read |-> NoRead] : o \in ConnectOutcomes \ {"connected"}}
    \cup {[connect |-> "connected", read |-> r] : r \in BannerReads}

\* the networks a scan of the ports can meet: an answer for each class of
\* port; the 25 ports of the common list meet one answer throughout
Responders(spec, ports) ==
    LET classes == {Class(ports[i]) : i \in 1..Len(ports)}
    IN  IF spec = Common
        THEN {[c \in classes |-> a] : a \in ClassAnswers}
        ELSE [classes -> ClassAnswers]

----
(* Aggregation: the sort of scanPorts and the counting loop of Scan *)

\* mutant: the slice is returned in the order of arrival
SortByPortOmitted(rs) == rs

\* sort.Slice with the less function of line 233: the entries in ascending
\* order of Port; the less function sees nothing but Port, so entries with
\* the same Port come out in an order that depends on where they stood
SortByPort(rs) ==
    LET Less(i, j) == rs[i].Port < rs[j].Port \/ (rs[i].Port = rs[j].Port /\ i < j)
        rank == [j \in 1..Len(rs) |-> 1 + Cardinality({i \in 1..Len(rs) : Less(i, j)})]
    IN  [k \in 1..Len(rs) |-> rs[CHOOSE j \in 1..Len(rs) : rank[j] = k]]

NoSummary == [TotalPorts |-> 0, OpenPorts |-> 0, ClosedPorts |-> 0,
              Filtered |-> 0, Results |-> <<>>]

\* mutant: the switch has no case for "closed"
CountOneNoClosed(sum, result) ==
    LET s1 == [sum EXCEPT !.TotalPorts = @ + 1] IN
    CASE result.Status = "open"     -> [s1 EXCEPT !.OpenPorts = @ + 1]
      [] result.Status = "filtered" -> [s1 EXCEPT !.Filtered = @ + 1]
      [] OTHER -> s1

CountOne(sum, result) ==
    LET s1 == [sum EXCEPT !.TotalPorts = @ + 1] IN
    CASE result.Status = "open"     -> [s1 EXCEPT !.OpenPorts = @ + 1]
      [] result.Status = "closed"   -> [s1 EXCEPT !.ClosedPorts = @ + 1]
      [] result.Status = "filtered" -> [s1 EXCEPT !.Filtered = @ + 1]
      [] OTHER -> s1

RECURSIVE CountAll(_, _)
CountAll(sum, rs) ==
    IF rs = <<>> THEN sum ELSE CountAll(CountOne(sum, Head(rs)), Tail(rs))

MakeSummary(rs) == CountAll([NoSummary EXCEPT !.Results = rs], rs)

----
(* Inputs *)

TokenPool ==
    { <<" ", "4", "4", "3">>,               \* " 443"
      <<"8", "0", "-", "8", "1">>,          \* 80-81
      Common,                               \* common
      <<"a">>,                              \* non-numeric
      <<"7", "0", "0", "0", "0">>,          \* 70000
      <<"0">>,                              \* 0
      <<"5", "-", "3">>,                    \* 5-3
      <<"0", "-", "2">>,                    \* 0-2
      <<"2", "-", "7", "0", "0", "0", "0">> \* 2-70000
    }

TokenSeqs == UNION { [1..n -> TokenPool] : n \in 1..MaxTokens }

Targets == {"", "ip", "host"}

Formats == {"text", "json", "csv", "xml"}

\* the file watcher is another program: while the port scanner runs it has
\* not been started
WatcherIdle ==
    /\ Command = ""
    /\ currentState = <<>>
    /\ newState = <<>>
    /\ pending = <<>>
    /\ events = <<>>
    /\ stopChan = "open"
    /\ polls = 0
    /\ printed = -1
    /\ wpc = "idle"
    /\ mpc = "idle"

Init ==
    /\ WatcherIdle
    /\ pc = "start"
    /\ tokens \in TokenSeqs
    /\ portSpec = Join(tokens, ",")
    /\ target \in Targets
    /\ Concurrency \in 0..MaxConcurrency
    \* the 25 ports of the common list are scanned by at most one worker
    /\ portSpec = Common => Concurrency <= 1
    /\ responder = <<>>
    /\ Ports = <<>>
    /\ parseErr = ""
    /\ parseDetail = <<>>
    /\ ipAddr = ""
    /\ scanErr = ""
    /\ jobs = <<>>
    /\ jobsClosed = FALSE
    /\ sent = 0
    /\ results = <<>>
    /\ resultsClosed = FALSE
    /\ wg = 0
    /\ worker = <<>>
    /\ scanResults = <<>>
    /\ arrival = <<>>
    /\ summary = NoSummary
    /\ sockets = 0
    /\ lookups = 0
    /\ dialed = <<>>

scanVars == <<jobs, jobsClosed, sent, results, resultsClosed, wg, worker,
              scanResults, arrival>>
inputVars == <<tokens, portSpec, target, Concurrency>>

----
(* Pieces of control flow shared by the actions *)

\* mutant: the loop starting the workers runs once too often
NumWorkersOneMore(c) == IF c >= 0 THEN c + 1 ELSE 0

\* for i := 0; i < ps.Concurrency; i++: the number of workers started
NumWorkers(c) == IF c > 0 THEN c ELSE 0

\* mutant: a range over a channel ends as soon as the channel is empty
RangeEndsOnEmpty(ch, closed) == ch = <<>>

\* for x := range ch ends when ch is closed and drained
RangeEnds(ch, closed) == ch = <<>> /\ closed

\* mutant: the closer does not wait for the workers
WgWaitSkipped(counter) == TRUE

\* mutant: wg.Wait() returns while one worker is still running
WgWaitOneLeft(counter) == counter <= 1

\* wg.Wait() returns when the counter is zero
WgWaitReturns(counter) == counter = 0

\* mutant: no address is taken for a literal one, all are looked up
IsLiteralNever(t) == FALSE

\* net.ParseIP(ps.Target) != nil
IsLiteral(t) == t = "ip"

\* mutant: the connection is closed only when a banner was read
SocketsAfterCloseIfBanner(n, banner) == IF banner = <<>> THEN n ELSE n - 1

\* conn.Close() runs after grabBanner whatever it returned
SocketsAfterClose(n, banner) == n - 1

\* mutant: a worker stops at the first port that is not open
AfterProbeStopOnFailure(result) == IF result.Status = "open" THEN "recv" ELSE "done"

\* the body of the worker's loop has no break or return: after the send
\* the worker receives again
AfterProbe(result) == "recv"

----
(* main *)

\* flag.Parse, the -h check and the required-target check
MainFlags ==
    /\ pc = "start"
    /\ \E help \in BOOLEAN :
         pc' = IF help THEN "exit_help"
               ELSE IF target = "" THEN "exit_usage"
               ELSE "parse"
    /\ UNCHANGED <<inputVars, watchVars, responder, Ports, parseErr, parseDetail, ipAddr, scanErr, scanVars,
                   summary, sockets, lookups, dialed>>

\* portList, err := parsePorts(*ports); log.Fatalf on err
MainParsePorts ==
    /\ pc = "parse"
    /\ LET r == parsePorts(portSpec) IN
         /\ parseErr' = r.err
         /\ parseDetail' = r.detail
         /\ Ports' = r.ports
         /\ pc' = IF r.err # "" THEN "fatal_ports" ELSE "format"
    /\ UNCHANGED <<inputVars, watchVars, responder, ipAddr, scanErr, scanVars, summary, sockets, lookups, dialed>>

\* the switch over the output format; log.Fatalf on an unknown one
MainValidateFormat ==
    /\ pc = "format"
    /\ \E format \in Formats :
         pc' = IF format \in {"text", "json", "csv"} THEN "resolve" ELSE "fatal_format"
    /\ UNCHANGED <<inputVars, watchVars, responder, Ports, parseErr, parseDetail, ipAddr, scanErr, scanVars,
                   summary, sockets, lookups, dialed>>

----
(* Scan *)

\* resolveTarget with a literal address: net.ParseIP succeeds, no lookup
ResolveLiteral ==
    /\ pc = "resolve"
    /\ IsLiteral(target)
    /\ ipAddr' = target
    /\ pc' = "scanPorts"
    /\ UNCHANGED <<inputVars, watchVars, responder, Ports, parseErr, parseDetail, scanErr, scanVars, summary,
                   sockets, lookups, dialed>>

\* resolveTarget with a host name: net.LookupIP answers an error, an empty
\* list or a list of addresses, of which the first IPv4 one, else the first
\* one, is returned
ResolveLookup ==
    /\ pc = "resolve"
    /\ ~IsLiteral(target)
    /\ lookups' = lookups + 1
    /\ \E answer \in {"error", "empty", "addrs"} :
         IF answer \in {"error", "empty"}
         THEN /\ scanErr' = "failed to resolve target"
              /\ pc' = "fatal_scan"
              /\ UNCHANGED ipAddr
         ELSE /\ ipAddr' = "resolved"
              /\ pc' = "scanPorts"
              /\ UNCHANGED scanErr
    /\ UNCHANGED <<inputVars, watchVars, responder, Ports, parseErr, parseDetail, scanVars, summary, sockets,
                   dialed>>

\* scanPorts up to the collection loop: the channels are made, Concurrency
\* workers are started (wg.Add(1) each), the sender and the closer are spawned
ScanPortsStart ==
    /\ pc = "scanPorts"
    /\ jobs' = <<>>
    /\ results' = <<>>
    /\ wg' = NumWorkers(Concurrency)
    /\ worker' = [i \in 1..NumWorkers(Concurrency) |-> [pc |-> "recv", port |-> 0]]
    /\ responder' \in Responders(portSpec, Ports)
    /\ pc' = "collect"
    /\ UNCHANGED <<inputVars, watchVars, Ports, parseErr, parseDetail, ipAddr, scanErr, jobsClosed, sent,
                   resultsClosed, scanResults, arrival, summary, sockets, lookups, dialed>>

Scanning == pc = "collect"

\* the sender goroutine: jobs <- port
\* mutant: the channels are made with room for one item
CapacityOne(ports) == 1

\* make(chan int, len(ps.Ports)), make(chan ScanResult, len(ps.Ports)): a
\* send blocks while the channel holds that many items
Capacity(ports) == Len(ports)

SendJob ==
    /\ Scanning
    /\ sent < Len(Ports)
    /\ Len(jobs) < Capacity(Ports)
    /\ jobs' = Append(jobs, Ports[sent + 1])
    /\ sent' = sent + 1
    /\ UNCHANGED <<pc, inputVars, watchVars, responder, Ports, parseErr, parseDetail, ipAddr, scanErr, jobsClosed,
                   results, resultsClosed, wg, worker, scanResults, arrival, summary,
                   sockets, lookups, dialed>>

\* the sender goroutine: close(jobs)
CloseJobs ==
    /\ Scanning
    /\ sent = Len(Ports)
    /\ ~jobsClosed
    /\ jobsClosed' = TRUE
    /\ UNCHANGED <<pc, inputVars, watchVars, responder, Ports, parseErr, parseDetail, ipAddr, scanErr, jobs, sent,
                   results, resultsClosed, wg, worker, scanResults, arrival, summary,
                   sockets, lookups, dialed>>

\* worker: port received from jobs, scanPort called, DialContext started
WorkerRecv(i) ==
    /\ Scanning
    /\ worker[i].pc = "recv"
    /\ jobs # <<>>
    /\ worker' = [worker EXCEPT ![i] = [pc |-> "dial", port |-> Head(jobs)]]
    /\ jobs' = Tail(jobs)
    /\ dialed' = Append(dialed, Head(jobs))
    /\ UNCHANGED <<pc, inputVars, watchVars, responder, Ports, parseErr, parseDetail, ipAddr, scanErr, jobsClosed,
                   sent, results, resultsClosed, wg, scanResults, arrival, summary, sockets, lookups>>

\* worker: DialContext returned; on an error scanPort classifies it and
\* returns, results <- result; on success the connection is open and
\* grabBanner starts its read
WorkerProbe(i) ==
    /\ Scanning
    /\ worker[i].pc = "dial"
    /\ IF Answer(worker[i].port) # "connected"
       THEN \E result \in {scanPort(worker[i].port, Answer(worker[i].port), NoRead)} :
              /\ Len(results) < Capacity(Ports)
              /\ results' = Append(results, result)
              /\ worker' = [worker EXCEPT ![i] = [pc |-> AfterProbe(result), port |-> 0]]
              /\ UNCHANGED sockets
       ELSE /\ worker' = [worker EXCEPT ![i].pc = "banner"]
            /\ sockets' = sockets + 1
            /\ UNCHANGED results
    /\ UNCHANGED <<pc, inputVars, watchVars, responder, Ports, parseErr, parseDetail, ipAddr, scanErr, jobs,
                   jobsClosed, sent, resultsClosed, wg, scanResults, arrival, summary,
                   lookups, dialed>>

\* worker: conn.Read returned (bytes, an error or the deadline), grabBanner
\* and conn.Close() ran, scanPort returned, results <- result
WorkerBanner(i) ==
    /\ Scanning
    /\ worker[i].pc = "banner"
    /\ Len(results) < Capacity(Ports)
    /\ \E result \in {scanPort(worker[i].port, "connected", Read(worker[i].port))} :
         /\ results' = Append(results, result)
         /\ sockets' = SocketsAfterClose(sockets, result.Banner)
         /\ worker' = [worker EXCEPT ![i] = [pc |-> AfterProbe(result), port |-> 0]]
    /\ UNCHANGED <<pc, inputVars, watchVars, responder, Ports, parseErr, parseDetail, ipAddr, scanErr, jobs,
                   jobsClosed, sent, resultsClosed, wg, scanResults, arrival, summary,
                   lookups, dialed>>

\* worker: range over jobs ends (closed and drained), deferred wg.Done()
WorkerExit(i) ==
    /\ Scanning
    /\ worker[i].pc = "recv"
    /\ RangeEnds(jobs, jobsClosed)
    /\ worker' = [worker EXCEPT ![i] = [pc |-> "done", port |-> 0]]
    /\ wg' = wg - 1
    /\ UNCHANGED <<pc, inputVars, watchVars, responder, Ports, parseErr, parseDetail, ipAddr, scanErr, jobs,
                   jobsClosed, sent, results, resultsClosed, scanResults, arrival,
                   summary, sockets, lookups, dialed>>

\* the closer goroutine: wg.Wait() returned, close(results)
CloseResults ==
    /\ Scanning
    /\ WgWaitReturns(wg)
    /\ ~resultsClosed
    /\ resultsClosed' = TRUE
    /\ UNCHANGED <<pc, inputVars, watchVars, responder, Ports, parseErr, parseDetail, ipAddr, scanErr, jobs,
                   jobsClosed, sent, results, wg, worker, scanResults, arrival, summary,
                   sockets, lookups, dialed>>

\* the collector: one iteration of for result := range results
CollectResult ==
    /\ Scanning
    /\ results # <<>>
    /\ scanResults' = Append(scanResults, Head(results))
    /\ arrival' = Append(arrival, Head(results))
    /\ results' = Tail(results)
    /\ UNCHANGED <<pc, inputVars, watchVars, responder, Ports, parseErr, parseDetail, ipAddr, scanErr, jobs,
                   jobsClosed, sent, resultsClosed, wg, worker, summary,
                   sockets, lookups, dialed>>

\* the collector: the range ends (closed and drained), sort.Slice, return;
\* Scan builds the summary, counts the statuses and returns it
ScanReturn ==
    /\ Scanning
    /\ RangeEnds(results, resultsClosed)
    /\ \E sorted \in {SortByPort(scanResults)} :
         /\ scanResults' = sorted
         /\ summary' = MakeSummary(sorted)
    /\ pc' = "output"
    /\ UNCHANGED <<inputVars, watchVars, responder, Ports, parseErr, parseDetail, ipAddr, scanErr, jobs, jobsClosed,
                   sent, results, resultsClosed, wg, worker, arrival, sockets, lookups, dialed>>

\* outputResults
MainOutput ==
    /\ pc = "output"
    /\ pc' = "exit_ok"
    /\ UNCHANGED <<inputVars, watchVars, responder, Ports, parseErr, parseDetail, ipAddr, scanErr, scanVars,
                   summary, sockets, lookups, dialed>>

Next ==
    \/ MainFlags
    \/ MainParsePorts
    \/ MainValidateFormat
    \/ ResolveLiteral
    \/ ResolveLookup
    \/ ScanPortsStart
    \/ SendJob
    \/ CloseJobs
    \/ \E i \in DOMAIN worker : WorkerRecv(i)
    \/ \E i \in DOMAIN worker : WorkerProbe(i)
    \/ \E i \in DOMAIN worker : WorkerBanner(i)
    \/ \E i \in DOMAIN worker : WorkerExit(i)
    \/ CloseResults
    \/ CollectResult
    \/ ScanReturn
    \/ MainOutput

Spec == Init /\ [][Next]_vars

(***************************************************************************)
(* parsePorts on its own, on port specifications written from numbers      *)
(* around the limits of the port space and from text that is no number.    *)
(***************************************************************************)
\* the numbers the tokens are written from
Nums == {0, 1, 2, 3, 65535, 65536}

\* a port n and a range a-b; a range that expands to more than MaxSpan + 1
\* ports is left out
Singles == {[kind |-> "single", a |-> n, b |-> n] : n \in Nums}

Ranges ==
    {[kind |-> "range", a |-> x, b |-> y] : x \in Nums, y \in Nums}
    \ {[kind |-> "range", a |-> x, b |-> y] : x \in MinPort..3, y \in {MaxPort}}

\* how the user writes the item: the numbers in decimal
Render(item) ==
    IF item.kind = "single" THEN Itoa(item.a)
    ELSE Itoa(item.a) \o <<"-">> \o Itoa(item.b)

\* tokens that are not a number or two numbers around a hyphen, or are
\* written with a sign or with blanks
TextTokens ==
    { <<"a">>, <<>>, <<"-", "5">>, <<"5", "-">>, <<"1", "-", "2", "-", "3">>,
      <<"1", "-", "a">>, <<"a", "-", "1">>, <<"+", "5">>,
      <<"1", " ", "-", " ", "2">>, <<" ", "2", " ">> }

ParseTokenPool == {Render(item) : item \in Singles \cup Ranges} \cup TextTokens

ParseTokenSeqs == UNION { [1..n -> ParseTokenPool] : n \in 1..MaxTokens }

\* main has read its flags and is about to call parsePorts
ParseInit ==
    /\ WatcherIdle
    /\ pc = "parse"
    /\ tokens \in ParseTokenSeqs
    /\ portSpec = Join(tokens, ",")
    /\ target = "ip"
    /\ Concurrency = 1
    /\ responder = <<>>
    /\ Ports = <<>>
    /\ parseErr = ""
    /\ parseDetail = <<>>
    /\ ipAddr = ""
    /\ scanErr = ""
    /\ jobs = <<>>
    /\ jobsClosed = FALSE
    /\ sent = 0
    /\ results = <<>>
    /\ resultsClosed = FALSE
    /\ wg = 0
    /\ worker = <<>>
    /\ scanResults = <<>>
    /\ arrival = <<>>
    /\ summary = NoSummary
    /\ sockets = 0
    /\ lookups = 0
    /\ dialed = <<>>

SpecParse == ParseInit /\ [][MainParsePorts]_vars

(***************************************************************************)
(* The banner exchange on its own: scanPort from the successful dial on,   *)
(* on one connection, step by step: the write of the greeting, the one     *)
(* read, and the cleaning of what was read.  The worker record carries     *)
(* what was written and what the read returned; responder is the listener. *)
(***************************************************************************)
Rep(c, n) == [i \in 1..n |-> c]

\* what a listener sends
ReplyTexts ==
    { <<"H", "T", "T", "P", "/", "1", ".", "0", " ", "2", "0", "0">>,
      <<" ", "\t", "O", "K", "\r", "\n", "h", "i", "\r", "\n">>,
      <<"\r", "\n">>,
      Rep("a", BannerLimit),
      Rep("a", BannerLimit + 1),
      Rep("a", BannerLimit - 2) \o <<"\n", "b">>,
      Rep("a", BannerLimit - 1) \o <<"\r", "b">> }

\* a listener sends its text when the connection is accepted (greets) or
\* when it has received a request (answers), sends nothing (silent), or
\* closes the connection (closes)
Listeners ==
    {[kind |-> k, text |-> t] : k \in {"greets", "answers"}, t \in ReplyTexts}
    \cup {[kind |-> k, text |-> <<>>] : k \in {"silent", "closes"}}

BannerPorts == {21, 22, 25, 80, 81, 110, 143, 443, 8080}

\* what conn.Read returns from the listener, given what was written to it:
\* the bytes it sent, EOF when it closed, the deadline when nothing came
ListenerRead(listener, written) ==
    CASE listener.kind = "greets" -> [err |-> "", data |-> listener.text]
      [] listener.kind = "answers" /\ written # <<>> ->
             [err |-> "", data |-> listener.text]
      [] listener.kind = "closes" -> [err |-> "EOF", data |-> <<>>]
      [] OTHER -> [err |-> "i/o timeout", data |-> <<>>]

\* DialContext has returned a connection to the port
BannerInit ==
    /\ WatcherIdle
    /\ pc = "collect"
    /\ tokens = <<>>
    /\ portSpec = <<>>
    /\ target = "ip"
    /\ Concurrency = 1
    /\ responder \in Listeners
    /\ \E port \in BannerPorts :
         /\ Ports = <<port>>
         /\ worker = <<[pc |-> "probe", port |-> port, written |-> <<>>, read |-> NoRead]>>
         /\ dialed = <<port>>
    /\ parseErr = ""
    /\ parseDetail = <<>>
    /\ ipAddr = "resolved"
    /\ scanErr = ""
    /\ jobs = <<>>
    /\ jobsClosed = TRUE
    /\ sent = 1
    /\ results = <<>>
    /\ resultsClosed = FALSE
    /\ wg = 1
    /\ scanResults = <<>>
    /\ arrival = <<>>
    /\ summary = NoSummary
    /\ sockets = 1
    /\ lookups = 0

bannerVars == <<pc, inputVars, watchVars, responder, Ports, parseErr, parseDetail, ipAddr, scanErr,
                jobs, jobsClosed, sent, resultsClosed, wg, scanResults, arrival,
                summary, lookups, dialed>>

\* grabBanner: the read deadline is set and the switch writes the greeting
\* of the port, if it has one
GrabWrite ==
    /\ worker[1].pc = "probe"
    /\ worker' = [worker EXCEPT ![1].pc = "read",
                                ![1].written = IF Probe(worker[1].port) # ""
                                               THEN <<Probe(worker[1].port)>>
                                               ELSE <<>>]
    /\ UNCHANGED <<bannerVars, results, sockets>>

\* grabBanner: conn.Read returns
GrabRead ==
    /\ worker[1].pc = "read"
    /\ worker' = [worker EXCEPT ![1].pc = "clean",
                                ![1].read = ListenerRead(responder, worker[1].written)]
    /\ UNCHANGED <<bannerVars, results, sockets>>

\* grabBanner cleans what was read and returns, scanPort closes the
\* connection and returns, results <- result
GrabReturn ==
    /\ worker[1].pc = "clean"
    /\ \E result \in {scanPort(worker[1].port, "connected", worker[1].read)} :
         /\ results' = Append(results, result)
         /\ sockets' = SocketsAfterClose(sockets, result.Banner)
    /\ worker' = [worker EXCEPT ![1].pc = "recv"]
    /\ UNCHANGED bannerVars

BannerNext == GrabWrite \/ GrabRead \/ GrabReturn

SpecBanner == BannerInit /\ [][BannerNext]_vars

(***************************************************************************)
(* The aggregation step on its own: the collector loop (226-230), the sort *)
(* (232-235) and the counting loop of Scan (154-165), applied to the same  *)
(* outcomes in two arrival orders.  The outcomes are any the workers can   *)
(* send for a port list the resolver returns: what two attempts on one     *)
(* port answer is not tied together.                                       *)
(***************************************************************************)
\* the outcome sequences, in port-list order, that a scan of the ports can
\* produce; for a list longer than MaxPermLen one answer for all entries
\* but one
Outcomes(ports) ==
    LET n == Len(ports) IN
    IF n <= MaxPermLen
    THEN {[i \in 1..n |-> scanPort(ports[i], as[i].connect, as[i].read)] :
             as \in [1..n -> ClassAnswers]}
    ELSE {[i \in 1..n |-> IF i = k THEN scanPort(ports[i], b.connect, b.read)
                                   ELSE scanPort(ports[i], a.connect, a.read)] :
             a \in ClassAnswers, b \in ClassAnswers, k \in 1..n}

\* the orders of the elements of a sequence
Perms(seq) ==
    LET n == Len(seq)
        bij == {f \in [1..n -> 1..n] : \A i, j \in 1..n : i # j => f[i] # f[j]}
    IN  {[i \in 1..n |-> seq[f[i]]] : f \in bij}

\* the arrival orders tried first: every order of a short sequence, the
\* order of the port list for a longer one
Orders(rs) == IF Len(rs) <= MaxPermLen THEN Perms(rs) ELSE {rs}

Swap(seq, i, j) == [seq EXCEPT ![i] = seq[j], ![j] = seq[i]]

\* two outcomes that say the same about their ports
SameAnswer(r1, r2) ==
    r1.Status = r2.Status /\ r1.Banner = r2.Banner /\ r1.Error = r2.Error

AggInit ==
    /\ WatcherIdle
    /\ pc = "outcomes"
    /\ tokens \in TokenSeqs
    /\ portSpec = Join(tokens, ",")
    /\ parsePorts(portSpec).err = ""
    /\ Ports = parsePorts(portSpec).ports
    /\ target = "ip"
    /\ Concurrency = 1
    /\ responder = <<>>
    /\ parseErr = ""
    /\ parseDetail = <<>>
    /\ ipAddr = "resolved"
    /\ scanErr = ""
    /\ jobs = <<>>
    /\ jobsClosed = TRUE
    /\ sent = Len(Ports)
    /\ results = <<>>
    /\ resultsClosed = FALSE
    /\ wg = 0
    /\ worker = <<>>
    /\ scanResults = <<>>
    /\ arrival = <<>>
    /\ summary = NoSummary
    /\ sockets = 0
    /\ lookups = 0
    /\ dialed = <<>>

\* the workers have sent one outcome per entry of the port list
AggProduce ==
    /\ pc = "outcomes"
    /\ \E rs \in Outcomes(Ports) : \E order \in Orders(rs) : results' = order
    /\ resultsClosed' = TRUE
    /\ pc' = "aggregate"
    /\ UNCHANGED <<inputVars, watchVars, responder, Ports, parseErr, parseDetail, ipAddr, scanErr, jobs, jobsClosed,
                   sent, wg, worker, scanResults, arrival, summary, sockets, lookups, dialed>>

\* the collector appends the outcomes in their order of arrival, scanPorts
\* sorts them and Scan counts them
AggAggregate ==
    /\ pc = "aggregate"
    /\ arrival' = results
    /\ \E sorted \in {SortByPort(results)} :
         /\ scanResults' = sorted
         /\ summary' = MakeSummary(sorted)
    /\ results' = <<>>
    /\ pc' = "reaggregate"
    /\ UNCHANGED <<inputVars, watchVars, responder, Ports, parseErr, parseDetail, ipAddr, scanErr, jobs, jobsClosed,
                   sent, resultsClosed, wg, worker, sockets, lookups, dialed>>

\* the same outcomes arrive with two of them exchanged and are aggregated
\* again; in a list longer than MaxPermLen the two differ in their answer
AggReaggregate ==
    /\ pc = "reaggregate"
    /\ \E i, j \in 1..Len(arrival) :
         /\ i < j
         /\ Len(arrival) > MaxPermLen => ~SameAnswer(arrival[i], arrival[j])
         /\ arrival' = Swap(arrival, i, j)
         /\ \E sorted \in {SortByPort(Swap(arrival, i, j))} :
              /\ scanResults' = sorted
              /\ summary' = MakeSummary(sorted)
    /\ pc' = "compared"
    /\ UNCHANGED <<inputVars, watchVars, responder, Ports, parseErr, parseDetail, ipAddr, scanErr, jobs, jobsClosed,
                   sent, results, resultsClosed, wg, worker, sockets, lookups, dialed>>

AggNext == AggProduce \/ AggAggregate \/ AggReaggregate

SpecAggregate == AggInit /\ [][AggNext]_vars

\* a step of worker goroutine i
WorkerStep(i) ==
    /\ i \in DOMAIN worker
    /\ WorkerRecv(i) \/ WorkerProbe(i) \/ WorkerBanner(i) \/ WorkerExit(i)

\* the Go scheduler runs every goroutine of a scan that can take a step:
\* the collector (main inside scanPorts), the job sender, the closer and
\* each worker; DialContext returns by the context timeout and conn.Read by
\* its read deadline
Fairness ==
    /\ WF_vars(CollectResult \/ ScanReturn \/ MainOutput)
    /\ WF_vars(SendJob \/ CloseJobs)
    /\ WF_vars(CloseResults)
    /\ \A i \in 1..MaxConcurrency : WF_vars(WorkerStep(i))

FairSpec == Init /\ [][Next]_vars /\ Fairness

(***************************************************************************)
(* The file watcher: main starts the goroutine running Start, waits for    *)
(* the interrupt, calls Stop and prints the total; Start scans once and    *)
(* then polls on each tick until it receives from stopChan.                *)
(***************************************************************************)

\* the paths the scans can find (those matching the pattern, not excluded)
WatchedPaths == {"a", "b"}
\* info.Size() and info.ModTime() of a file
Sizes == {1, 2}
Times == {1, 2}
\* the -c flag
Commands == {"", "make"}
\* ticks of the ticker that are followed
MaxPolls == 1

FileState == [Size : Sizes, ModTime : Times]

\* what scanDirectory can return: a map from some of the paths to their
\* FileState
scanDirectory == UNION {[S -> FileState] : S \in SUBSET WatchedPaths}

hasChanged(old, new) == new.ModTime > old.ModTime \/ new.Size /= old.Size

FileEvent(type, path) == [Type |-> type, Path |-> path]

\* the orders in which a range over a map can visit the events it yields
Iterations(S) ==
    {seq \in [1..Cardinality(S) -> S] :
        \A i, j \in 1..Cardinality(S) : i /= j => seq[i] /= seq[j]}

\* compareStates: the events of the loop over new, in one of the orders the
\* map iteration can take, then those of the loop over old
compareStates(old, new) ==
    LET fresh   == {FileEvent("created", p) : p \in DOMAIN new \ DOMAIN old}
        changed == {FileEvent("modified", p) :
                       p \in {q \in DOMAIN new \cap DOMAIN old :
                                 hasChanged(old[q], new[q])}}
        gone    == {FileEvent("deleted", p) : p \in DOMAIN old \ DOMAIN new}
    IN  {first \o second : first \in Iterations(fresh \cup changed),
                           second \in Iterations(gone)}

scannerVars == <<pc, inputVars, responder, Ports, parseErr, parseDetail, ipAddr,
                 scanErr, scanVars, summary, sockets, lookups, dialed>>

WatchInit ==
    /\ pc = "watch"
    /\ tokens = <<>>
    /\ portSpec = <<>>
    /\ target = ""
    /\ Concurrency = 0
    /\ responder = <<>>
    /\ Ports = <<>>
    /\ parseErr = ""
    /\ parseDetail = <<>>
    /\ ipAddr = ""
    /\ scanErr = ""
    /\ jobs = <<>>
    /\ jobsClosed = FALSE
    /\ sent = 0
    /\ results = <<>>
    /\ resultsClosed = FALSE
    /\ wg = 0
    /\ worker = <<>>
    /\ scanResults = <<>>
    /\ arrival = <<>>
    /\ summary = NoSummary
    /\ sockets = 0
    /\ lookups = 0
    /\ dialed = <<>>
    \* NewWatcher, then go watcher.Start()
    /\ Command \in Commands
    /\ currentState = <<>>
    /\ newState = <<>>
    /\ pending = <<>>
    /\ events = <<>>
    /\ stopChan = "open"
    /\ polls = 0
    /\ printed = -1
    /\ wpc = "start"
    /\ mpc = "waiting"

\* the process lives until main returns
Running == mpc \in {"waiting", "stop", "read", "print"}

\* Start: the initial scan
StartScan ==
    /\ Running
    /\ wpc = "start"
    /\ \E state \in scanDirectory : currentState' = state
    /\ wpc' = "select"
    /\ UNCHANGED <<scannerVars, Command, newState, pending, events, stopChan,
                   polls, printed, mpc>>

\* Start: the select receives from ticker.C (whether stopChan is closed or
\* not: a select with several ready cases picks one of them)
Tick ==
    /\ Running
    /\ wpc = "select"
    /\ polls < MaxPolls
    /\ polls' = polls + 1
    /\ wpc' = "check"
    /\ UNCHANGED <<scannerVars, Command, currentState, newState, pending,
                   events, stopChan, printed, mpc>>

\* Start: the select receives from the closed stopChan and Start returns
StopReceived ==
    /\ Running
    /\ wpc = "select"
    /\ stopChan = "closed"
    /\ wpc' = "returned"
    /\ UNCHANGED <<scannerVars, Command, currentState, newState, pending,
                   events, stopChan, polls, printed, mpc>>

\* checkForChanges: the scan and compareStates
Compare ==
    /\ Running
    /\ wpc = "check"
    /\ \E state \in scanDirectory :
         \E found \in compareStates(currentState, state) :
            /\ newState' = state
            /\ pending' = found
            /\ wpc' = IF Len(found) > 0 THEN "append" ELSE "update"
    /\ UNCHANGED <<scannerVars, Command, currentState, events, stopChan,
                   polls, printed, mpc>>

\* checkForChanges: one turn of the loop over the events
AppendEvent ==
    /\ Running
    /\ wpc = "append"
    /\ events' = Append(events, Head(pending))
    /\ pending' = Tail(pending)
    /\ wpc' = IF Len(pending) > 1 THEN "append"
              ELSE IF Command /= "" THEN "command" ELSE "update"
    /\ UNCHANGED <<scannerVars, Command, currentState, newState, stopChan,
                   polls, printed, mpc>>

\* checkForChanges: executeCommand
ExecuteCommand ==
    /\ Running
    /\ wpc = "command"
    /\ wpc' = "update"
    /\ UNCHANGED <<scannerVars, Command, currentState, newState, pending,
                   events, stopChan, polls, printed, mpc>>

\* checkForChanges: w.currentState = newState
UpdateState ==
    /\ Running
    /\ wpc = "update"
    /\ currentState' = newState
    /\ wpc' = "select"
    /\ UNCHANGED <<scannerVars, Command, newState, pending, events, stopChan,
                   polls, printed, mpc>>

\* main: <-sigChan
Interrupt ==
    /\ mpc = "waiting"
    /\ mpc' = "stop"
    /\ UNCHANGED <<scannerVars, Command, currentState, newState, pending,
                   events, stopChan, polls, printed, wpc>>

\* main: watcher.Stop()
Stop ==
    /\ mpc = "stop"
    /\ stopChan' = "closed"
    /\ mpc' = "read"
    /\ UNCHANGED <<scannerVars, Command, currentState, newState, pending,
                   events, polls, printed, wpc>>

\* main: len(watcher.events)
ReadTotal ==
    /\ mpc = "read"
    /\ printed' = Len(events)
    /\ mpc' = "print"
    /\ UNCHANGED <<scannerVars, Command, currentState, newState, pending,
                   events, stopChan, polls, wpc>>

\* main: the Printf, then main returns and the process ends
MainReturn ==
    /\ mpc = "print"
    /\ mpc' = "exited"
    /\ UNCHANGED <<scannerVars, Command, currentState, newState, pending,
                   events, stopChan, polls, printed, wpc>>

WatchNext ==
    \/ StartScan
    \/ Tick
    \/ StopReceived
    \/ Compare
    \/ AppendEvent
    \/ ExecuteCommand
    \/ UpdateState
    \/ Interrupt
    \/ Stop
    \/ ReadTotal
    \/ MainReturn

SpecWatcher == WatchInit /\ [][WatchNext]_vars

----
(* Vocabulary of the properties *)

\* Scan has returned a summary to main
Returned == pc \in {"output", "exit_ok"}

\* parsePorts has returned to main
Parsed == pc \notin {"start", "parse", "exit_help", "exit_usage"}

\* connect attempts started and not yet finished
InFlight == Cardinality({i \in DOMAIN worker : worker[i].pc \in {"dial", "banner"}})

\* how often x occurs in a sequence
Count(x, seq) == Cardinality({i \in 1..Len(seq) : seq[i] = x})

PortsOf(rs) == [i \in 1..Len(rs) |-> rs[i].Port]

\* how many workers are probing port p
Dialing(p) ==
    Cardinality({i \in DOMAIN worker :
                    worker[i].pc \in {"dial", "banner"} /\ worker[i].port = p})

Unsent == SubSeq(Ports, sent + 1, Len(Ports))

\* every outcome the scan has produced so far
Produced == SeqToSet(results) \cup SeqToSet(scanResults)

\* the tokens the claims call malformed: non-numeric, a single port outside
\* [1,65535], a range with start > end or with a bound outside [1,65535]
MalformedTokens ==
    { <<"a">>,
      <<"7", "0", "0", "0", "0">>,
      <<"0">>,
      <<"5", "-", "3">>,
      <<"0", "-", "2">>,
      <<"2", "-", "7", "0", "0", "0", "0">> }

HasMalformedToken == \E i \in 1..Len(tokens) : tokens[i] \in MalformedTokens

\* the status the classification policy gives to a connect outcome
PolicyStatus(outcome) ==
    CASE outcome = "connected" -> "open"
      [] outcome = "timeout"   -> "filtered"
      [] outcome = "refused"   -> "closed"
      [] OTHER                 -> "filtered"

----
(* C1: with at least one worker, under every interleaving of the sender,  *)
(* the workers, the closer and the collector, every entry of the port      *)
(* list is at every moment in exactly one place (not yet sent, in the jobs *)
(* channel, being probed, in the results channel, collected), and what     *)
(* scanPorts returns holds exactly one outcome per entry: none skipped,    *)
(* none twice, none lost between a worker's send and the collector's read. *)
C1_OneOutcomePerEntry ==
    (Concurrency >= 1 /\ (Scanning \/ Returned)) =>
        /\ \A p \in SeqToSet(Ports) \cup SeqToSet(PortsOf(scanResults)) :
             /\ Count(p, Unsent) + Count(p, jobs) + Dialing(p)
                  + Count(p, PortsOf(results)) + Count(p, PortsOf(scanResults))
                  = Count(p, Ports)
             /\ Returned => Count(p, PortsOf(scanResults)) = Count(p, Ports)

C1_Witness ==
    /\ Returned
    /\ Concurrency >= 2
    /\ Len(Ports) >= 3
    /\ Len(scanResults) = Len(Ports)
    /\ \E r1, r2 \in SeqToSet(scanResults) : r1.Status # r2.Status

(* C2: the number of connect attempts in flight never exceeds the         *)
(* concurrency limit.                                                      *)
C2_InFlightAtMostC == InFlight <= Concurrency

C2_Witness == Concurrency >= 2 /\ InFlight = Concurrency

(* C3: every summary Scan returns covers every requested port:            *)
(* len(Results) is the number of requested ports and each requested port   *)
(* appears in Results, whatever the concurrency setting.                   *)
C3_SummaryCoversEveryPort ==
    Returned =>
        /\ Len(summary.Results) = Len(Ports)
        /\ \A i \in 1..Len(Ports) :
             \E j \in 1..Len(summary.Results) : summary.Results[j].Port = Ports[i]

(* C4: in every summary Scan returns,                                      *)
(* TotalPorts = len(Results) = OpenPorts + ClosedPorts + Filtered.         *)
C4_CountsAddUp ==
    Returned =>
        /\ summary.TotalPorts = Len(summary.Results)
        /\ summary.TotalPorts =
             summary.OpenPorts + summary.ClosedPorts + summary.Filtered

C4_Witness ==
    /\ Returned
    /\ summary.TotalPorts >= 2
    /\ \E r1, r2 \in SeqToSet(summary.Results) : r1.Status # r2.Status

(* C5: every port list parsePorts returns without an error (the keyword   *)
(* common included) is strictly ascending, hence free of duplicates, and   *)
(* all its elements are in [1,65535].                                      *)
C5_ResolvedPortsAscendingUnique ==
    (Parsed /\ parseErr = "") =>
        /\ \A i \in 1..Len(Ports) : Ports[i] >= 1 /\ Ports[i] <= 65535
        /\ \A i \in 1..(Len(Ports) - 1) : Ports[i] < Ports[i + 1]

(* C6: during a scan at most one connect attempt is made for a port       *)
(* value: no port is probed twice.                                         *)
C6_OneAttemptPerPort ==
    \A i, j \in 1..Len(dialed) : i # j => dialed[i] # dialed[j]

(* C7: when the port specification holds a malformed token, resolution    *)
(* fails and the invocation makes no network action: no host name lookup   *)
(* and no connect attempt, before or after the failure.                    *)
C7_MalformedSpecNoNetwork ==
    HasMalformedToken =>
        /\ lookups = 0
        /\ dialed = <<>>
        /\ Parsed => (pc = "fatal_ports" /\ parseErr # "" /\ Ports = <<>>)

C7_Witness ==
    /\ pc = "fatal_ports"
    /\ HasMalformedToken
    /\ target = "host"
    /\ \E i \in 1..Len(tokens) : tokens[i] \notin MalformedTokens

(* C8 as stated: once the port specification and the flags have been      *)
(* accepted, Scan never returns an error.                                  *)
C8_ScanNeverFails == scanErr = "" /\ pc # "fatal_scan"

(* C8 amended: the only error Scan returns is the failure to resolve a    *)
(* target that is a host name, returned after the lookup and before any    *)
(* connect attempt; once the target is resolved, and always when it is a   *)
(* literal address, Scan returns a summary and no error, whatever the      *)
(* probes answer.                                                          *)
C8_OnlyResolutionFails ==
    /\ (scanErr # "" \/ pc = "fatal_scan") =>
          /\ pc = "fatal_scan" /\ scanErr = "failed to resolve target"
          /\ target = "host" /\ lookups = 1
          /\ ipAddr = "" /\ dialed = <<>>
    /\ (ipAddr # "" \/ dialed # <<>> \/ Returned) => scanErr = ""

C8_Witness ==
    /\ pc = "exit_ok"
    /\ summary.TotalPorts >= 2
    /\ summary.OpenPorts = 0
    /\ scanErr = ""

(* C9: the status of every outcome is the policy's function of what the   *)
(* connect answered: connected -> open, timeout -> filtered, refusal ->    *)
(* closed, any other failure -> filtered; so it is one of the three        *)
(* values, open iff the handshake completed, closed only for a refusal.    *)
C9_StatusFollowsPolicy ==
    \A r \in Produced :
        /\ r.Status = PolicyStatus(Answer(r.Port))
        /\ r.Status \in {"open", "closed", "filtered"}
        /\ r.Status = "open" <=> Answer(r.Port) = "connected"
        /\ r.Status = "closed" => Answer(r.Port) = "refused"

C9_Witness ==
    \E r1, r2 \in Produced :
        /\ r1.Status = "closed"
        /\ r2.Status = "filtered"
        /\ Answer(r2.Port) \in {"unreachable", "plain"}

(* C10: a connect failure stays inside the prober: the step in which a    *)
(* worker's connect attempt ends in a failure sends the outcome of that    *)
(* port on the results channel, leaves the worker ready to take the next   *)
(* job, and leaves main inside Scan with no error.                         *)
C10_FailureStaysLocal ==
    [][\A i \in DOMAIN worker :
          (/\ worker[i].pc = "dial"
           /\ worker'[i] # worker[i]
           /\ Answer(worker[i].port) # "connected") =>
              /\ worker'[i].pc = "recv"
              /\ Len(results') = Len(results) + 1
              /\ results'[Len(results')].Port = worker[i].port
              /\ pc' = pc
              /\ scanErr' = ""]_vars

C10_Witness ==
    /\ Concurrency = 1
    /\ Len(dialed) >= 2
    /\ \E r \in Produced : r.Port = dialed[1] /\ r.Status # "open"

----
(* Vocabulary of the properties of aggregation and of the barrier *)

AllWorkersDone == \A i \in DOMAIN worker : worker[i].pc = "done"

\* the ports of a list in ascending order, each as often as in the list
RECURSIVE AscendingPorts(_)
AscendingPorts(ports) ==
    IF ports = <<>> THEN <<>>
    ELSE LET k == CHOOSE i \in 1..Len(ports) : \A j \in 1..Len(ports) : ports[i] <= ports[j]
         IN  <<ports[k]>> \o
             AscendingPorts(SubSeq(ports, 1, k - 1) \o SubSeq(ports, k + 1, Len(ports)))

\* the (port, status) pairs one sequential pass over the ports gives
SequentialPairs ==
    LET sp == AscendingPorts(Ports)
    IN  [i \in 1..Len(sp) |-> <<sp[i], scanPort(sp[i], Answer(sp[i]), Read(sp[i])).Status>>]

PairsOf(rs) == [i \in 1..Len(rs) |-> <<rs[i].Port, rs[i].Status>>]

(* C11: in the summary Scan returns, Results is in ascending order of     *)
(* Port, whatever the order in which the workers finished.                 *)
C11_ResultsAscending ==
    Returned =>
        \A i, j \in 1..Len(summary.Results) :
            i < j => summary.Results[i].Port <= summary.Results[j].Port

C11_Witness ==
    /\ Returned
    /\ \E i, j \in 1..Len(arrival) : i < j /\ arrival[i].Port > arrival[j].Port

(* C13: against a fixed responder the (port, status) pairs of the final   *)
(* Results are those of one sequential pass over the ports in ascending    *)
(* order, for every concurrency >= 1 and every interleaving.               *)
C13_SameAsSequential ==
    (Returned /\ Concurrency >= 1) => PairsOf(summary.Results) = SequentialPairs

C13_Witness ==
    /\ Returned
    /\ Concurrency >= 2
    /\ \E i, j \in 1..Len(arrival) : i < j /\ arrival[i].Port > arrival[j].Port
    /\ \E r1, r2 \in SeqToSet(summary.Results) : r1.Status # r2.Status

(* C14: the results channel is closed only when every worker has          *)
(* returned, nothing is sent on it once it is closed, Scan returns only    *)
(* after the close, and the summary is written in one step only, the       *)
(* return of the collector, after all that.                                *)
C14_Barrier ==
    /\ [](resultsClosed => (AllWorkersDone /\ wg = 0))
    /\ [](Returned => (resultsClosed /\ results = <<>>))
    /\ [][Len(results') > Len(results) => (~resultsClosed /\ ~resultsClosed')]_vars
    /\ [][(summary' # summary \/ (pc = "collect" /\ pc' # "collect")) =>
             (resultsClosed /\ AllWorkersDone /\ pc = "collect" /\ pc' = "output"
              /\ summary = NoSummary)]_vars

C14_Witness ==
    /\ Returned
    /\ Concurrency >= 2
    /\ summary.TotalPorts >= 2
    /\ resultsClosed

(* C19: the keyword common is accepted as one token among others: a       *)
(* specification of well-formed tokens and the keyword resolves, and the   *)
(* result holds the ports of the common list.                              *)
C19_CommonAmongTokens ==
    (/\ Parsed
     /\ Len(tokens) >= 2
     /\ \E i \in 1..Len(tokens) : tokens[i] = Common
     /\ ~HasMalformedToken)
    => (parseErr = "" /\ SeqToSet(getCommonPorts) \subseteq SeqToSet(Ports))

(* C20: for an accepted specification, every order of its tokens and      *)
(* every repetition of one of its tokens resolves to the same port list.   *)
C20_OrderAndRepetitionIndependent ==
    (Parsed /\ parseErr = "") =>
        /\ \A ts \in Perms(tokens) :
             parsePorts(Join(ts, ",")) = [err |-> "", ports |-> Ports, detail |-> <<>>]
        /\ \A i \in 1..Len(tokens) :
             parsePorts(Join(Append(tokens, tokens[i]), ",")) = [err |-> "", ports |-> Ports, detail |-> <<>>]


(***************************************************************************)
(* Vocabulary of the banner step.                                          *)
(***************************************************************************)
\* the outcomes of the ports whose connect succeeded
Connected == {r \in Produced : Answer(r.Port) = "connected"}

\* the workers holding an open connection: inside scanPort, past the dial
HoldingConn == {i \in DOMAIN worker : worker[i].pc = "banner"}

(***************************************************************************)
(* C16: every connection scanPort opens is closed before scanPort returns: *)
(* the open connections are exactly those of the workers that are inside   *)
(* scanPort between a successful dial and its return, whatever the banner  *)
(* step wrote or read, and once the scan has returned no socket is open.   *)
(***************************************************************************)
C16_ConnectionsClosed ==
    /\ sockets = Cardinality(HoldingConn)
    /\ Returned => sockets = 0

\* a scan that returned after a connection with a greeting whose read failed
\* and a connection without a greeting whose read returned bytes
C16_Witness ==
    /\ Returned
    /\ \E r1, r2 \in SeqToSet(summary.Results) :
          /\ r1.Status = "open" /\ Probe(r1.Port) # "" /\ r1.Banner = <<>>
          /\ r2.Status = "open" /\ Probe(r2.Port) = "" /\ r2.Banner # <<>>

(***************************************************************************)
(* C17: a banner failure never changes the classification: the outcome of  *)
(* a port whose connect succeeded has status open whatever the read        *)
(* returned, and when the read returned an error or timed out the banner   *)
(* is empty and no error is recorded.                                      *)
(***************************************************************************)
C17_BannerFailureKeepsOpen ==
    \A r \in Connected :
        /\ r.Status = "open"
        /\ Read(r.Port).err # "" => (r.Banner = <<>> /\ r.Error = <<>>)

\* a scan that returned one port whose read timed out and one whose read
\* ended in another error
C17_Witness ==
    /\ Returned
    /\ \E r1, r2 \in SeqToSet(summary.Results) :
          /\ Answer(r1.Port) = "connected" /\ Read(r1.Port).err = "i/o timeout"
          /\ Answer(r2.Port) = "connected" /\ Read(r2.Port).err = "EOF"

(***************************************************************************)
(* C18: an outcome with a non-empty banner has status open and its banner  *)
(* read returned bytes without error; an outcome with status closed or     *)
(* filtered carries no banner.                                             *)
(***************************************************************************)
C18_BannerOnlyWhenOpen ==
    \A r \in Produced :
        /\ r.Banner # <<>> =>
              /\ r.Status = "open"
              /\ Answer(r.Port) = "connected"
              /\ Read(r.Port).err = ""
              /\ Read(r.Port).data # <<>>
        /\ r.Status \in {"closed", "filtered"} => r.Banner = <<>>

\* a scan that returned a port with a banner next to a closed port
C18_Witness ==
    /\ Returned
    /\ \E r1, r2 \in SeqToSet(summary.Results) :
          /\ r1.Banner # <<>>
          /\ r2.Status = "closed"


(***************************************************************************)
(* C15: every scan terminates: under fair scheduling, with every connect   *)
(* and every banner read returning, a scan that has started its workers    *)
(* reaches the state in which the job queue is drained, every worker has   *)
(* exited, the results channel is closed and scanPorts has returned.       *)
(***************************************************************************)
C15_ScanTerminates ==
    Scanning ~> (Returned /\ jobs = <<>> /\ AllWorkersDone /\ resultsClosed)

\* every scan that started its workers returns
C15_ScanReturns == Scanning ~> Returned


(***************************************************************************)
(* C12: the aggregation step is order-independent: for every port list the *)
(* resolver can return and every multiset of outcomes, aggregating the     *)
(* outcomes in a second arrival order gives the same sorted Results and    *)
(* the same status counts as in the first.                                 *)
(***************************************************************************)
C12_OrderIndependent ==
    [][(pc = "reaggregate" /\ pc' = "compared") => summary' = summary]_vars


(***************************************************************************)
(* Vocabulary of the port specification.                                   *)
(***************************************************************************)
NumItems == Singles \cup Ranges

\* the token is a number, or two numbers around a hyphen
IsNumToken(token) == \E item \in NumItems : Render(item) = token

\* the number or the two numbers the token was written from
ItemOf(token) == CHOOSE item \in NumItems : Render(item) = token

\* 1 <= a <= b <= 65535 (a = b = n for a single port n)
InPortSpace(item) == 1 <= item.a /\ item.a <= item.b /\ item.b <= 65535

AllNumTokens == \A i \in 1..Len(tokens) : IsNumToken(tokens[i])

(***************************************************************************)
(* C21: a range token a-b with integers a and b is accepted iff            *)
(* 1 <= a <= b <= 65535 and then contributes exactly the ports a..b, both  *)
(* ends included; a single-port token n is accepted iff 1 <= n <= 65535:   *)
(* a specification of such tokens is accepted iff each of them is, and     *)
(* the ports it resolves to are exactly those of its tokens.               *)
(***************************************************************************)
C21_TokenAccepted ==
    (Parsed /\ AllNumTokens) =>
        /\ parseErr = "" <=> \A i \in 1..Len(tokens) : InPortSpace(ItemOf(tokens[i]))
        /\ parseErr = "" =>
              SeqToSet(Ports) =
                  UNION {ItemOf(tokens[i]).a .. ItemOf(tokens[i]).b : i \in 1..Len(tokens)}

\* an accepted specification of a range of several ports and the highest
\* port
C21_Witness ==
    /\ Parsed /\ AllNumTokens /\ parseErr = ""
    /\ \E i, j \in 1..Len(tokens) :
          /\ ItemOf(tokens[i]).kind = "range" /\ ItemOf(tokens[i]).a < ItemOf(tokens[i]).b
          /\ ItemOf(tokens[j]).kind = "single" /\ ItemOf(tokens[j]).a = MaxPort


\* the tokens that are neither a port nor a range of ports: a number or a
\* range outside the port space, or text that is no number
Malformed(token) ==
    IF IsNumToken(token) THEN ~InPortSpace(ItemOf(token))
    ELSE token \in TextTokens \ {<<"+", "5">>, <<" ", "2", " ">>}

\* what an error cites identifies the token: it is the token, or the start
\* or the end of it when the token is written as a range
Identifies(detail, token) ==
    \/ detail = TrimSpace(token)
    \/ detail # <<>> /\ detail \in SeqToSet(Split(TrimSpace(token), "-"))

(***************************************************************************)
(* C22: when resolution fails, parsePorts returns no port list and an      *)
(* error that identifies the offending token, which is the first malformed *)
(* token of the PortSpec from the left.                                    *)
(***************************************************************************)
C22_ErrorNamesFirstMalformed ==
    (Parsed /\ parseErr # "") =>
        /\ Ports = <<>>
        /\ \E i \in 1..Len(tokens) :
              /\ Malformed(tokens[i])
              /\ \A j \in 1..(i - 1) : ~Malformed(tokens[j])
              /\ Identifies(parseDetail, tokens[i])


(***************************************************************************)
(* C25: the concurrency limit that reaches the worker-pool coordinator is  *)
(* a positive integer: scanPorts is never started with Concurrency <= 0.   *)
(***************************************************************************)
C25_ConcurrencyPositive == (Scanning \/ Returned) => Concurrency >= 1


(***************************************************************************)
(* C30: for every outcome the error detail is non-empty iff the status is  *)
(* not open, and the service name is set iff the status is open: it is     *)
(* the table entry of the port, or "unknown" for a port not in the table.  *)
(***************************************************************************)
C30_ErrorAndServiceFollowStatus ==
    \A r \in Produced :
        /\ r.Error # <<>> <=> r.Status # "open"
        /\ r.Service # "" <=> r.Status = "open"
        /\ r.Status = "open" =>
              IF r.Port \in ServicePorts THEN r.Service \notin {"", "unknown"}
              ELSE r.Service = "unknown"

\* a scan that returned an open port that is not in the table next to a
\* port that is not open
C30_Witness ==
    /\ Returned
    /\ \E r1, r2 \in SeqToSet(summary.Results) :
          /\ r1.Status = "open" /\ r1.Port \notin ServicePorts
          /\ r2.Status # "open" /\ r2.Error # <<>>


(***************************************************************************)
(* C29: in every state of a scan over n ports the jobs channel and the     *)
(* results channel each hold at most n items, their capacity: the sender   *)
(* with a port left to send finds room in jobs, and a worker with an       *)
(* outcome to send finds room in results, whatever the collector has read. *)
(***************************************************************************)
C29_ChannelsNeverFull ==
    Scanning =>
        /\ Len(jobs) <= Len(Ports)
        /\ Len(results) <= Len(Ports)
        /\ sent < Len(Ports) => Len(jobs) < Capacity(Ports)
        /\ \A i \in DOMAIN worker :
              worker[i].pc \in {"dial", "banner"} => Len(results) < Capacity(Ports)

\* every port was sent before a worker took one, and every outcome but the
\* last is in the results channel before the collector has read any
C29_Witness ==
    /\ Scanning
    /\ Len(Ports) >= 2
    /\ arrival = <<>>
    /\ Len(results) = Len(Ports) - 1
    /\ \E i \in DOMAIN worker : worker[i].pc \in {"dial", "banner"}


(***************************************************************************)
(* C28: workers share nothing but the two channels: a step that puts an    *)
(* outcome on the results channel is the step of exactly one worker and    *)
(* the outcome is that of the port this worker held; only the collector    *)
(* takes outcomes off the channel, no worker does; and the summary         *)
(* counters are written in one step of the goroutine that runs Scan, when  *)
(* every worker has finished.                                              *)
(***************************************************************************)
C28_WorkersShareOnlyChannels ==
    [][/\ Len(results') > Len(results) =>
            \E i \in DOMAIN worker :
                /\ worker[i].pc \in {"dial", "banner"}
                /\ worker'[i] # worker[i]
                /\ \A j \in DOMAIN worker \ {i} : worker'[j] = worker[j]
                /\ results' = Append(results, results'[Len(results')])
                /\ results'[Len(results')].Port = worker[i].port
                /\ summary' = summary /\ scanResults' = scanResults
       /\ Len(results') < Len(results) =>
            (worker' = worker /\ scanResults' = Append(scanResults, Head(results)))
       /\ summary' # summary =>
            (AllWorkersDone /\ worker' = worker /\ pc = "collect" /\ pc' = "output")
      ]_vars

\* a scan by two workers whose counters were written: an open and a closed
\* port counted
C28_Witness ==
    /\ Returned
    /\ Len(worker) >= 2
    /\ summary.OpenPorts >= 1
    /\ summary.ClosedPorts >= 1


(***************************************************************************)
(* Vocabulary of the banner exchange.                                      *)
(***************************************************************************)
\* the ports the claims give a greeting to
GreetedPorts == {21, 25, 80, 8080, 110, 143}

\* the text occurs in the sequence of characters
Occurs(text, s) ==
    \E k \in 0..(Len(s) - Len(text)) : SubSeq(s, k + 1, k + Len(text)) = text

\* the banner exchange is over and its outcome is on the results channel
Grabbed == worker # <<>> /\ worker[1].pc = "recv" /\ Len(results) = 1

\* the exchange is past the switch that writes the greeting
PastWrite == worker[1].pc \in {"read", "clean", "recv"}

(***************************************************************************)
(* C26: grabBanner writes a greeting before reading iff the port is one    *)
(* of 21, 25, 80, 8080, 110, 143, the greetings of 80 and 8080 being the   *)
(* same and all others different, and writes nothing for any other port;   *)
(* the one read comes after the write, so a listener on port 80 that       *)
(* answers the GET with "HTTP/1.0 200" gives an open outcome whose banner  *)
(* contains "HTTP".                                                        *)
(***************************************************************************)
C26_GreetingThenRead ==
    /\ PastWrite => (worker[1].written # <<>> <=> worker[1].port \in GreetedPorts)
    /\ Len(worker[1].written) <= 1
    /\ \A p, q \in GreetedPorts :
          Probe(p) = Probe(q) <=> (p = q \/ {p, q} = {80, 8080})
    /\ worker[1].pc \in {"probe", "read"} => worker[1].read = NoRead
    /\ (/\ Grabbed
        /\ worker[1].port = 80
        /\ responder = [kind |-> "answers",
                        text |-> <<"H", "T", "T", "P", "/", "1", ".", "0", " ", "2", "0", "0">>])
       => (/\ results[1].Status = "open"
           /\ Occurs(<<"H", "T", "T", "P">>, results[1].Banner))

\* the exchange on port 80 with a listener that answered the GET
C26_Witness ==
    /\ Grabbed
    /\ worker[1].port = 80
    /\ responder.kind = "answers"
    /\ worker[1].written # <<>>
    /\ Occurs(<<"H", "T", "T", "P">>, results[1].Banner)

(***************************************************************************)
(* C27: the banner grabBanner returns has no leading or trailing           *)
(* whitespace and no raw carriage return or line feed, each being replaced *)
(* by backslash-r or backslash-n; it is the whole escaped text when that   *)
(* is at most 100 bytes long, else its first 100 bytes followed by "...";  *)
(* so it is never longer than 103 and every escape in it is complete.      *)
(***************************************************************************)
C27_BannerClean ==
    Grabbed =>
        LET b    == results[1].Banner
            text == ReplaceAll(ReplaceAll(TrimSpace(worker[1].read.data),
                                          "\r", <<"\\", "r">>), "\n", <<"\\", "n">>)
        IN  /\ b # <<>> => (~IsSpace(b[1]) /\ ~IsSpace(b[Len(b)]))
            /\ \A i \in 1..Len(b) : b[i] \notin {"\r", "\n"}
            /\ IF Len(text) <= 100 THEN b = text
               ELSE b = SubSeq(text, 1, 100) \o <<".", ".", ".">>
            /\ Len(b) <= 103
            /\ \A i \in 1..Len(b) :
                  b[i] = "\\" => (i < Len(b) /\ b[i + 1] \in {"r", "n"})

(***************************************************************************)
(* Vocabulary of the file watcher.                                         *)
(***************************************************************************)
\* the step of checkForChanges that scans and compares
Polled == wpc = "check" /\ wpc' # "check"

\* the events of a list that are about a path, in their order
EventsAbout(list, path) ==
    LET idx == {i \in 1..Len(list) : list[i].Path = path}
        nth(k) == CHOOSE i \in idx : Cardinality({j \in idx : j < i}) = k - 1
    IN  [k \in 1..Cardinality(idx) |-> list[nth(k)]]

\* what a poll is to report about a path, given the previous and the new scan
Report(old, new, path) ==
    IF path \in DOMAIN new \ DOMAIN old THEN <<FileEvent("created", path)>>
    ELSE IF path \in DOMAIN old \ DOMAIN new THEN <<FileEvent("deleted", path)>>
    ELSE IF /\ path \in DOMAIN old \cap DOMAIN new
            /\ \/ old[path].Size # new[path].Size
               \/ old[path].ModTime # new[path].ModTime
         THEN <<FileEvent("modified", path)>>
    ELSE <<>>

\* checkForChanges is between its scan and the end of its loop over the events
Appending == wpc \in {"check", "append"}

(***************************************************************************)
(* C23: on each poll and for each path, the watcher reports exactly one    *)
(* event when the path changed and none otherwise: created when the path   *)
(* is only in the new scan, deleted when it is only in the previous one,   *)
(* modified when it is in both and its size or its modification time       *)
(* differs; a rename gives one deleted and one created.                    *)
(***************************************************************************)
C23_OneEventPerChange ==
    [][Polled =>
          \A path \in WatchedPaths :
             EventsAbout(pending', path) = Report(currentState, newState', path)]_vars

(***************************************************************************)
(* C24: the watcher shuts down gracefully: when main returns the polling   *)
(* loop has exited, nothing is appended to the event history once main has *)
(* read it, the total main prints is the number of events recorded, and    *)
(* the read in main never happens while checkForChanges is appending.      *)
(***************************************************************************)
C24_GracefulShutdown ==
    /\ [](mpc = "exited" => wpc = "returned")
    /\ [][printed >= 0 => events' = events]_vars
    /\ [](printed >= 0 => printed = Len(events))
    /\ [](mpc = "read" => ~Appending)

====
